---- MODULE Spec2Model ----
(***************************************************************************)
(* The flattening adapter of govship (src/flattened.c, src/flattened.h):   *)
(* four C functions that take plane pointers and strides as scalar         *)
(* arguments, build the pointer/stride arrays on the C stack and call the  *)
(* Vship library entry point with them.                                    *)
(*                                                                         *)
(* Pointers and strides are integers (an address, a byte count); 0 is the  *)
(* null pointer.  The Vship library itself is not part of the repository:  *)
(* it is an opaque collaborator, modelled as a deterministic function of   *)
(* the arguments it receives and of its own state, whose score is an       *)
(* injective digest of exactly what it was passed.                         *)
(***************************************************************************)
EXTENDS Integers, Sequences, FiniteSets, TLC

\* ------------------------------------------------------------- bounds
\* Total number of calls the callers make in one run.
MaxCalls == 2

\* Number of temporal frames loaded before a temporal score is computed.
MaxFrames == 2

\* Caller threads (each has its own C stack).
Threads == {1, 2}

\* ------------------------------------------------------ caller's world
\* Frame pairs a caller may submit: source planes/strides (sp, ss) and
\* distorted planes/strides (dp, ds).  All twelve values of the colour pair
\* are different, so that any misplaced argument shows.  The monochrome pair
\* has null planes 1 and 2, with arbitrary strides.
PairAB ==
    [sp |-> <<11, 12, 13>>, ss |-> <<21, 22, 23>>,
     dp |-> <<31, 32, 33>>, ds |-> <<41, 42, 43>>]
PairMono ==
    [sp |-> <<14, 0, 0>>, ss |-> <<24, 0, 5>>,
     dp |-> <<34, 0, 0>>, ds |-> <<44, 6, 0>>]

\* Handler objects in the caller's memory.  Thread t owns a live handler at
\* address 100 + t holding id t; address 110 holds a zero-initialised handler
\* (id 0) and address 111 a destroyed one (id 9).
LiveHandler(t) == 100 + t
ZeroHandler == {110}
DeadHandler == {111}
HandlerAddrs == {LiveHandler(t) : t \in Threads} \cup ZeroHandler \cup DeadHandler
LiveIds == Threads
HandlerIds == LiveIds \cup {0, 9}

ScoreSlot(t) == 200 + t
MapBuf(t) == 300 + t
ScoreAddrs == {ScoreSlot(t) : t \in Threads}
MapAddrs == {MapBuf(t) : t \in Threads}
PlaneAddrs == {11, 12, 13, 14, 31, 32, 33, 34}

Ops == {"SSIMU2", "Butteraugli", "LoadCVVDP", "ComputeCVVDP"}

NoCall == [op |-> "none"]
NoLocals == [src |-> <<>>, dst |-> <<>>, srcLine |-> <<>>, dstLine |-> <<>>]
NoSeen == [fn |-> "none"]

VARIABLES
    pc,       \* per thread: "idle", "entered" (arrays built), "invoked" (library returned)
    call,     \* per thread: the caller's inputs and the positional argument list
    locals,   \* per stack slot: the adapter's local arrays
    seen,     \* per thread: the call the library received
    ret,      \* per thread: the value the library call returned
    mem,      \* caller-visible memory: handler objects, score slots, maps, planes
    lib,      \* library state: device condition and temporal window per handler id
    last,     \* per thread: summary of the last completed call
    sent,     \* per thread: frame pairs loaded successfully, in submission order
    ninv,     \* per thread: library invocations made by the current call
    ncalls,   \* calls made so far
    ub,       \* a null handler pointer has been dereferenced
    budget,   \* calls the callers make in this run
    crashed   \* 0, or the thread whose call killed the process

vars == <<pc, call, locals, seen, ret, mem, lib, last, sent, ninv, ncalls,
          ub, budget, crashed>>

\* ------------------------------------------------ the wrapped library
\* What the library computes from a call: an injective digest of every
\* argument it was passed and of the temporal window it holds.
Digest(fn, h, src, dst, srcLine, dstLine, stride, window) ==
    [fn |-> fn, handler |-> h, src |-> src, dst |-> dst,
     srcLine |-> srcLine, dstLine |-> dstLine, stride |-> stride,
     window |-> window]

Unset == Digest("unset", 0, <<>>, <<>>, <<>>, <<>>, 0, <<>>)

\* The status of a library call: an id that names no live handler is
\* refused with the invalid-handle status; a device in fault (it is, or is
\* not, for a whole run) fails the call.
VshipStatus(c, L) ==
    IF c.handler \notin LiveIds THEN "BadHandler"
    ELSE IF L.device = "fault" THEN "DeviceError"
    ELSE "NoError"

\* m with the score digest stored at address p (a store outside the score
\* slots lands nowhere the caller observes).
StoreScore(m, p, d) ==
    IF p \in DOMAIN m.score THEN [m EXCEPT !.score[p] = d] ELSE m

StoreMap(m, p, d) ==
    IF p \in DOMAIN m.map THEN [m EXCEPT !.map[p] = d] ELSE m

Frame(c) == [src |-> c.src, dst |-> c.dst, srcLine |-> c.srcLine, dstLine |-> c.dstLine]

\* Vship_ComputeSSIMU2(handler, score, srcp1, srcp2, lineSize, lineSize2)
Vship_ComputeSSIMU2(c, m, L) ==
    LET st == VshipStatus(c, L)
        d == Digest(c.fn, c.handler, c.src, c.dst, c.srcLine, c.dstLine, 0, <<>>)
    IN [status |-> st,
        mem |-> IF st = "NoError" THEN StoreScore(m, c.score, d) ELSE m,
        lib |-> L]

\* Vship_ComputeButteraugli(handler, score, dstp, dststride, srcp1, srcp2,
\*                          lineSize, lineSize2)
Vship_ComputeButteraugli(c, m, L) ==
    LET st == VshipStatus(c, L)
        d == Digest(c.fn, c.handler, c.src, c.dst, c.srcLine, c.dstLine,
                    c.dststride, <<>>)
    IN [status |-> st,
        mem |-> IF st = "NoError"
                THEN StoreMap(StoreScore(m, c.score, d), c.dstp, d) ELSE m,
        lib |-> L]

\* Vship_LoadTemporalCVVDP(handler, srcp1, srcp2, lineSize, lineSize2):
\* the frame pair joins the window of the handler the id names.
Vship_LoadTemporalCVVDP(c, m, L) ==
    LET st == VshipStatus(c, L)
    IN [status |-> st,
        mem |-> m,
        lib |-> IF st = "NoError"
                THEN [L EXCEPT !.window[c.handler] = Append(@, Frame(c))]
                ELSE L]

\* Vship_ComputeCVVDP(handler, score, dstp, dststride, srcp1, srcp2,
\*                    lineSize, lineSize2): the score depends on the frames
\* loaded before, in their order.
Vship_ComputeCVVDP(c, m, L) ==
    LET st == VshipStatus(c, L)
        d == Digest(c.fn, c.handler, c.src, c.dst, c.srcLine, c.dstLine,
                    c.dststride,
                    IF c.handler \in DOMAIN L.window THEN L.window[c.handler] ELSE <<>>)
    IN [status |-> st,
        mem |-> IF st = "NoError"
                THEN StoreMap(StoreScore(m, c.score, d), c.dstp, d) ELSE m,
        lib |-> L]

Vship(c, m, L) ==
    CASE c.fn = "Vship_ComputeSSIMU2" -> Vship_ComputeSSIMU2(c, m, L)
      [] c.fn = "Vship_ComputeButteraugli" -> Vship_ComputeButteraugli(c, m, L)
      [] c.fn = "Vship_LoadTemporalCVVDP" -> Vship_LoadTemporalCVVDP(c, m, L)
      [] c.fn = "Vship_ComputeCVVDP" -> Vship_ComputeCVVDP(c, m, L)

\* A library call: the entry point and the arguments it is passed.
LibCall(fn, h, score, dstp, dststride, src, dst, srcLine, dstLine) ==
    [fn |-> fn, handler |-> h, score |-> score, dstp |-> dstp,
     dststride |-> dststride, src |-> src, dst |-> dst,
     srcLine |-> srcLine, dstLine |-> dstLine]

\* ------------------------------------------------------- the adapter
\* The positional argument list of each prototype, from the caller's inputs.
ComputeSSIMU2_flat_args(in) ==
    <<in.handler, in.score>> \o in.sp \o in.ss \o in.dp \o in.ds

ComputeButteraugli_flat_args(in) ==
    <<in.handler, in.score, in.dstp, in.dststride>>
        \o in.sp \o in.dp \o in.ss \o in.ds

LoadTemporalCVVDP_flat_args(in) ==
    <<in.handler>> \o in.sp \o in.dp \o in.ss \o in.ds

ComputeCVVDP_flat_args(in) ==
    <<in.handler, in.score, in.dstp, in.dststride>>
        \o in.sp \o in.dp \o in.ss \o in.ds

Arrays(src, dst, srcLine, dstLine) ==
    [src |-> src, dst |-> dst, srcLine |-> srcLine, dstLine |-> dstLine]

\* The values the local arrays can hold after their initialisers, for the
\* positional arguments a (every element is initialised: one value).
\* Mutant: the parameters are read in the layout of the other three
\* functions (source planes, distorted planes, source strides, distorted
\* strides).
ComputeSSIMU2_flat_locals_layout(a) ==
    { Arrays(<<a[3], a[4], a[5]>>, <<a[6], a[7], a[8]>>,
             <<a[9], a[10], a[11]>>, <<a[12], a[13], a[14]>>) }

\* Mutant: the last source stride is never stored (indeterminate value).
ComputeSSIMU2_flat_locals_uninit(a) ==
    { Arrays(<<a[3], a[4], a[5]>>, <<a[9], a[10], a[11]>>,
             <<a[6], a[7], g>>, <<a[12], a[13], a[14]>>) : g \in {a[8], 0} }

ComputeSSIMU2_flat_locals(a) ==
    { Arrays(<<a[3], a[4], a[5]>>, <<a[9], a[10], a[11]>>,
             <<a[6], a[7], a[8]>>, <<a[12], a[13], a[14]>>) }

\* Mutant: the source and distorted pointer arrays are exchanged.
ComputeButteraugli_flat_locals_swapped(a) ==
    { Arrays(<<a[8], a[9], a[10]>>, <<a[5], a[6], a[7]>>,
             <<a[11], a[12], a[13]>>, <<a[14], a[15], a[16]>>) }

ComputeButteraugli_flat_locals(a) ==
    { Arrays(<<a[5], a[6], a[7]>>, <<a[8], a[9], a[10]>>,
             <<a[11], a[12], a[13]>>, <<a[14], a[15], a[16]>>) }

\* Mutant: the two stride arrays are exchanged.
LoadTemporalCVVDP_flat_locals_strides(a) ==
    { Arrays(<<a[2], a[3], a[4]>>, <<a[5], a[6], a[7]>>,
             <<a[11], a[12], a[13]>>, <<a[8], a[9], a[10]>>) }

LoadTemporalCVVDP_flat_locals(a) ==
    { Arrays(<<a[2], a[3], a[4]>>, <<a[5], a[6], a[7]>>,
             <<a[8], a[9], a[10]>>, <<a[11], a[12], a[13]>>) }

\* Mutant: an absent plane is replaced by plane 0 of the same image.
ComputeCVVDP_flat_locals_filled(a) ==
    { Arrays(<<a[5], IF a[6] = 0 THEN a[5] ELSE a[6], IF a[7] = 0 THEN a[5] ELSE a[7]>>,
             <<a[8], IF a[9] = 0 THEN a[8] ELSE a[9], IF a[10] = 0 THEN a[8] ELSE a[10]>>,
             <<a[11], a[12], a[13]>>, <<a[14], a[15], a[16]>>) }

ComputeCVVDP_flat_locals(a) ==
    { Arrays(<<a[5], a[6], a[7]>>, <<a[8], a[9], a[10]>>,
             <<a[11], a[12], a[13]>>, <<a[14], a[15], a[16]>>) }

\* The library call each function makes, from its arguments a, its local
\* arrays l and the handler value hv read through the handler pointer.
ComputeSSIMU2_flat_call(a, l, hv) ==
    LibCall("Vship_ComputeSSIMU2", hv, a[2], 0, 0,
            l.src, l.dst, l.srcLine, l.dstLine)

ComputeButteraugli_flat_call(a, l, hv) ==
    LibCall("Vship_ComputeButteraugli", hv, a[2], a[3], a[4],
            l.src, l.dst, l.srcLine, l.dstLine)

LoadTemporalCVVDP_flat_call(a, l, hv) ==
    LibCall("Vship_LoadTemporalCVVDP", hv, 0, 0, 0,
            l.src, l.dst, l.srcLine, l.dstLine)

ComputeCVVDP_flat_call(a, l, hv) ==
    LibCall("Vship_ComputeCVVDP", hv, a[2], a[3], a[4],
            l.src, l.dst, l.srcLine, l.dstLine)

\* Mutant: the adapter checks the handler itself and aborts on a zero id.
HandlerRead_asserted(m, h) ==
    IF h \in DOMAIN m.handler /\ m.handler[h] # 0
    THEN { [crash |-> FALSE, id |-> m.handler[h]] }
    ELSE { [crash |-> TRUE, id |-> 0] }

\* *handler: the value read through the handler pointer.  Reading through a
\* null pointer is undefined: the process dies, or some value is read.
HandlerRead(m, h) ==
    IF h \in DOMAIN m.handler
    THEN { [crash |-> FALSE, id |-> m.handler[h]] }
    ELSE { [crash |-> TRUE, id |-> 0] }
             \cup { [crash |-> FALSE, id |-> i] : i \in HandlerIds }

\* Mutant: the arrays are static, one copy shared by every call.
LocalsSlot_shared(t) == 1

\* The stack slot that holds the local arrays of a call made by thread t:
\* automatic storage, one activation record per call on the caller's stack.
LocalsSlot(t) == t

\* Mutant: the arrays have static storage and keep their contents.
AfterReturn_static(l) == l

\* What is left of the local arrays once the function has returned.
AfterReturn(l) == NoLocals

\* Mutant: the adapter clears the score slot before the library call.
AdapterStores_clear(m, a) == StoreScore(m, a[2], Unset)

\* Caller-visible memory after the adapter's own stores (it makes none: the
\* initialisers store to the local arrays only).
AdapterStores(m, a) == m

\* Mutant: a failure of the library is reported as success.
Returned_swallowed(st) == IF st = "BadHandler" THEN "NoError" ELSE st

\* The value a function returns, given the value the library call returned.
Returned(st) == st

\* ------------------------------------------------------------ state
MemInit ==
    [handler |-> [h \in HandlerAddrs |->
                    IF h \in ZeroHandler THEN 0
                    ELSE IF h \in DeadHandler THEN 9
                    ELSE h - 100],
     score |-> [p \in ScoreAddrs |-> Unset],
     map |-> [p \in MapAddrs |-> Unset],
     plane |-> [p \in PlaneAddrs |-> "pixels"]]

NoLast == [op |-> "none", in |-> NoCall, seen |-> NoSeen, status |-> "none",
           score |-> Unset, map |-> Unset]

Start ==
    /\ pc = [t \in Threads |-> "idle"]
    /\ call = [t \in Threads |-> NoCall]
    /\ locals = [s \in Threads |-> NoLocals]
    /\ seen = [t \in Threads |-> NoSeen]
    /\ ret = [t \in Threads |-> "none"]
    /\ mem = MemInit
    /\ \E d \in {"ok", "fault"} :
         lib = [device |-> d, window |-> [i \in LiveIds |-> <<>>]]
    /\ last = [t \in Threads |-> NoLast]
    /\ sent = [t \in Threads |-> <<>>]
    /\ ninv = [t \in Threads |-> 0]
    /\ ncalls = 0
    /\ ub = FALSE
    /\ crashed = 0

\* Any MaxCalls calls of the four functions, by both threads.
Init ==
    /\ Start
    /\ budget = MaxCalls

\* One caller feeding a temporal handler: up to MaxFrames loads and a score.
InitTemporal ==
    /\ Start
    /\ budget = MaxFrames + 1

In(fp, h, score, d) ==
    [handler |-> h, score |-> score, dstp |-> d,
     dststride |-> IF d = 0 THEN 0 ELSE 8,
     sp |-> fp.sp, ss |-> fp.ss, dp |-> fp.dp, ds |-> fp.ds]

\* The inputs thread t may pass: both frame pairs, every kind of handler
\* pointer (its live handler, null, the zero-initialised and the destroyed
\* handler) and both kinds of destination (its own map, none) occur.
Inputs(t) ==
    { In(PairAB, LiveHandler(t), ScoreSlot(t), MapBuf(t)),
      In(PairMono, LiveHandler(t), ScoreSlot(t), 0),
      In(PairAB, 0, ScoreSlot(t), MapBuf(t)),
      In(PairMono, 110, ScoreSlot(t), 0),
      In(PairAB, 111, ScoreSlot(t), MapBuf(t)) }

\* Inputs of the functions that take no destination map.
InputsNoMap(t) == { [in EXCEPT !.dstp = 0, !.dststride = 0] : in \in Inputs(t) }

\* Entry into a flattened function: the parameters are bound to the
\* positional arguments a and the local arrays are initialised to l.
Enter(t, op, in, a, l) ==
    /\ crashed = 0
    /\ pc[t] = "idle"
    /\ ncalls < budget
    /\ pc' = [pc EXCEPT ![t] = "entered"]
    /\ call' = [call EXCEPT ![t] = [op |-> op, in |-> in, argv |-> a]]
    /\ locals' = [locals EXCEPT ![LocalsSlot(t)] = l]
    /\ mem' = AdapterStores(mem, a)
    /\ ninv' = [ninv EXCEPT ![t] = 0]
    /\ ncalls' = ncalls + 1
    /\ UNCHANGED <<seen, ret, lib, last, sent, ub, budget, crashed>>

\* The library call thread t's function makes once *handler has been read
\* as hv.
CallOf(t, hv) ==
    LET a == call[t].argv
        l == locals[LocalsSlot(t)]
    IN CASE call[t].op = "SSIMU2" -> ComputeSSIMU2_flat_call(a, l, hv)
         [] call[t].op = "Butteraugli" -> ComputeButteraugli_flat_call(a, l, hv)
         [] call[t].op = "LoadCVVDP" -> LoadTemporalCVVDP_flat_call(a, l, hv)
         [] call[t].op = "ComputeCVVDP" -> ComputeCVVDP_flat_call(a, l, hv)

\* The return statement's call expression: *handler is read and the library
\* entry point is called; the library acts on memory and on its own state
\* and its status comes back.
Invoke(t, op) ==
    /\ crashed = 0
    /\ pc[t] = "entered"
    /\ call[t].op = op
    /\ \E r \in HandlerRead(mem, call[t].argv[1]) :
         IF r.crash
         THEN /\ crashed' = t
              /\ UNCHANGED <<pc, call, locals, seen, ret, mem, lib, last,
                             sent, ninv, ncalls, ub, budget>>
         ELSE LET out == Vship(CallOf(t, r.id), mem, lib)
              IN /\ pc' = [pc EXCEPT ![t] = "invoked"]
                 /\ seen' = [seen EXCEPT ![t] = CallOf(t, r.id)]
                 /\ ret' = [ret EXCEPT ![t] = out.status]
                 /\ mem' = out.mem
                 /\ lib' = out.lib
                 /\ ninv' = [ninv EXCEPT ![t] = @ + 1]
                 /\ ub' = (ub \/ call[t].argv[1] \notin DOMAIN mem.handler)
                 /\ UNCHANGED <<call, locals, last, sent, ncalls, budget, crashed>>

\* Whether thread t's call is a temporal load on its live handler that the
\* library accepted.
Loaded(t) ==
    /\ call[t].op = "LoadCVVDP"
    /\ call[t].in.handler = LiveHandler(t)
    /\ ret[t] = "NoError"

\* Return from a flattened function: the library's status is handed back and
\* the activation record, with the local arrays, is gone.
Return(t, op) ==
    /\ crashed = 0
    /\ pc[t] = "invoked"
    /\ call[t].op = op
    /\ pc' = [pc EXCEPT ![t] = "idle"]
    /\ locals' = [locals EXCEPT ![LocalsSlot(t)] = AfterReturn(@)]
    /\ last' = [last EXCEPT ![t] =
                  [op |-> op, in |-> call[t].in, seen |-> seen[t],
                   status |-> Returned(ret[t]),
                   score |-> mem.score[call[t].in.score],
                   map |-> mem.map[MapBuf(t)]]]
    /\ sent' = [sent EXCEPT ![t] =
                  IF Loaded(t)
                  THEN Append(@, Arrays(call[t].in.sp, call[t].in.dp,
                                        call[t].in.ss, call[t].in.ds))
                  ELSE @]
    /\ call' = [call EXCEPT ![t] = NoCall]
    /\ seen' = [seen EXCEPT ![t] = NoSeen]
    /\ ret' = [ret EXCEPT ![t] = "none"]
    /\ UNCHANGED <<mem, lib, ninv, ncalls, ub, budget, crashed>>

ComputeSSIMU2_flat(t) ==
    \/ \E in \in InputsNoMap(t) :
         LET a == ComputeSSIMU2_flat_args(in)
         IN \E l \in ComputeSSIMU2_flat_locals(a) : Enter(t, "SSIMU2", in, a, l)
    \/ Invoke(t, "SSIMU2")
    \/ Return(t, "SSIMU2")

ComputeButteraugli_flat(t) ==
    \/ \E in \in Inputs(t) :
         LET a == ComputeButteraugli_flat_args(in)
         IN \E l \in ComputeButteraugli_flat_locals(a) :
              Enter(t, "Butteraugli", in, a, l)
    \/ Invoke(t, "Butteraugli")
    \/ Return(t, "Butteraugli")

LoadTemporalCVVDP_flat(t) ==
    \/ \E in \in InputsNoMap(t) :
         LET a == LoadTemporalCVVDP_flat_args(in)
         IN \E l \in LoadTemporalCVVDP_flat_locals(a) :
              Enter(t, "LoadCVVDP", in, a, l)
    \/ Invoke(t, "LoadCVVDP")
    \/ Return(t, "LoadCVVDP")

ComputeCVVDP_flat(t) ==
    \/ \E in \in Inputs(t) :
         LET a == ComputeCVVDP_flat_args(in)
         IN \E l \in ComputeCVVDP_flat_locals(a) :
              Enter(t, "ComputeCVVDP", in, a, l)
    \/ Invoke(t, "ComputeCVVDP")
    \/ Return(t, "ComputeCVVDP")

Next ==
    \/ \E t \in Threads : ComputeSSIMU2_flat(t)
    \/ \E t \in Threads : ComputeButteraugli_flat(t)
    \/ \E t \in Threads : LoadTemporalCVVDP_flat(t)
    \/ \E t \in Threads : ComputeCVVDP_flat(t)

Spec == Init /\ [][Next]_vars

\* The temporal functions alone, called by thread 1.
NextTemporal ==
    \/ LoadTemporalCVVDP_flat(1)
    \/ ComputeCVVDP_flat(1)

SpecTemporal == InitTemporal /\ [][NextTemporal]_vars

\* ============================================================ claims
\* The native array-based library call that corresponds to a flattened call
\* with inputs in: source array [s0,s1,s2], distorted array [d0,d1,d2],
\* source strides [ls0,ls1,ls2], distorted strides [ld0,ld1,ld2], handler
\* value hv.
NativeFn(op) ==
    CASE op = "SSIMU2" -> "Vship_ComputeSSIMU2"
      [] op = "Butteraugli" -> "Vship_ComputeButteraugli"
      [] op = "LoadCVVDP" -> "Vship_LoadTemporalCVVDP"
      [] op = "ComputeCVVDP" -> "Vship_ComputeCVVDP"

Native(op, in, hv) ==
    LibCall(NativeFn(op), hv,
            IF op = "LoadCVVDP" THEN 0 ELSE in.score,
            IF op \in {"Butteraugli", "ComputeCVVDP"} THEN in.dstp ELSE 0,
            IF op \in {"Butteraugli", "ComputeCVVDP"} THEN in.dststride ELSE 0,
            in.sp, in.dp, in.ss, in.ds)

InCall(t) == pc[t] \in {"entered", "invoked"}
Invoking(t) == pc[t] = "entered" /\ pc'[t] = "invoked"
Returning(t) == pc[t] = "invoked" /\ pc'[t] = "idle"
Entering(t) == pc[t] = "idle" /\ pc'[t] = "entered"
ReadableHandler(t) == call[t].in.handler \in DOMAIN mem.handler

\* C1 (transparency): whenever a flattened function, called with a readable
\* handler, makes its library call, the status that comes back, the memory
\* (score slot, destination map) and the library state afterwards are those
\* of the native array-based call with the caller's planes and strides on
\* the same memory and library state; and that status is what the function
\* returns.
C1_Transparency ==
    [][\A t \in Threads :
         /\ (Invoking(t) /\ ReadableHandler(t)) =>
              LET n == Vship(Native(call[t].op, call[t].in,
                                    mem.handler[call[t].in.handler]), mem, lib)
              IN /\ ret'[t] = n.status
                 /\ mem' = n.mem
                 /\ lib' = n.lib
         /\ Returning(t) => last'[t].status = ret[t]]_vars

\* A composite score and its destination map have been written by a call.
C1_Witness ==
    \E t \in Threads :
        /\ last[t].op = "Butteraugli"
        /\ last[t].status = "NoError"
        /\ last[t].in.dstp = MapBuf(t)
        /\ mem.score[ScoreSlot(t)].fn = "Vship_ComputeButteraugli"
        /\ mem.map[MapBuf(t)].src = <<11, 12, 13>>

\* C2 (verbatim error relay): the status a flattened function returns is the
\* status its library call returned, whatever it is; the status of the call
\* is the library's answer to the call it received; and a call has invoked
\* the library exactly once when it returns, never more at any time.
C2_VerbatimRelay ==
    [][\A t \in Threads :
         /\ Invoking(t) =>
              /\ ret'[t] = Vship(seen'[t], mem, lib).status
              /\ ninv'[t] = 1
         /\ Returning(t) =>
              /\ last'[t].status = ret[t]
              /\ ninv[t] = 1
         /\ ninv'[t] <= 1]_vars

\* Two different failures have been relayed: the invalid-handle status to
\* thread 1 and a device failure to thread 2.
C2_Witness ==
    /\ last[1].status = "BadHandler"
    /\ last[2].status = "DeviceError"

\* C3 (no pointer retention): whenever a thread is not inside a flattened
\* function, the stack slot of its call holds no pointer or stride array and
\* no parameter of the call is kept.
C3_NoRetention ==
    \A t \in Threads :
        pc[t] = "idle" =>
            /\ locals[LocalsSlot(t)] = NoLocals
            /\ call[t] = NoCall

\* Both threads have returned from a call that reached the library.
C3_Witness ==
    \A t \in Threads : pc[t] = "idle" /\ last[t].status = "NoError"

InvalidHandler(t) == call[t].in.handler \in ZeroHandler \cup DeadHandler

\* C4 as stated: a call with an invalid handler reference, a null handler
\* pointer included, never kills the process, and when its library call has
\* been made the status is the invalid-handle status.
C4_Original ==
    \A t \in Threads :
        (InCall(t) /\ call[t].in.handler \notin {LiveHandler(u) : u \in Threads}) =>
            /\ crashed # t
            /\ pc[t] = "invoked" => ret[t] = "BadHandler"

\* C4 (amended): a call whose handler pointer is not null and points to a
\* zero-initialised or destroyed handler never kills the process; its
\* library call receives the value of that handler object and returns the
\* invalid-handle status, after one invocation.  Only a call with a null
\* handler pointer can kill the process, in the read of *handler.
C4_InvalidHandle ==
    /\ \A t \in Threads :
         (InCall(t) /\ InvalidHandler(t)) =>
            /\ crashed # t
            /\ pc[t] = "invoked" =>
                 /\ seen[t].handler = mem.handler[call[t].in.handler]
                 /\ ret[t] = "BadHandler"
                 /\ ninv[t] = 1
    /\ \A t \in Threads :
         (last[t].op # "none" /\ last[t].in.handler \in ZeroHandler \cup DeadHandler) =>
            last[t].status = "BadHandler"
    /\ crashed # 0 => call[crashed].in.handler = 0

\* The zero-initialised handler and the destroyed handler have each been
\* passed to a call that returned.
C4_Witness ==
    /\ last[1].op # "none"
    /\ last[2].op # "none"
    /\ last[1].in.handler \in ZeroHandler
    /\ last[1].status = "BadHandler"
    /\ last[2].in.handler \in DeadHandler
    /\ last[2].status = "BadHandler"

\* The frame pair of thread t's call, as the caller submitted it.
Submitted(t) ==
    Arrays(call[t].in.sp, call[t].in.dp, call[t].in.ss, call[t].in.ds)

\* C5 (temporal ordering): as long as no null handler has been passed, the
\* window the library holds for the caller's handler is the sequence of frame
\* pairs the caller loaded, in the order of the calls, each once (the load
\* whose library call has just been made included); and the score a later
\* ComputeCVVDP_flat call obtains on that handler is computed from exactly
\* that sequence.
C5_TemporalOrder ==
    /\ [](\A t \in {1} :
            ~ub => lib.window[t] =
                     sent[t] \o (IF pc[t] = "invoked" /\ Loaded(t)
                                 THEN <<Submitted(t)>> ELSE <<>>))
    /\ [][\A t \in {1} :
            (Invoking(t) /\ ~ub' /\ call[t].op = "ComputeCVVDP"
                /\ call[t].in.handler = LiveHandler(t) /\ ret'[t] = "NoError") =>
               mem'.score[ScoreSlot(t)].window = sent[t]]_vars

\* Two different frame pairs were loaded, the colour pair first, and a score
\* was then computed from the two in that order.
C5_Witness ==
    /\ ~ub
    /\ Len(sent[1]) = 2
    /\ sent[1][1].src = <<11, 12, 13>>
    /\ sent[1][2].src = <<14, 0, 0>>
    /\ last[1].op = "ComputeCVVDP"
    /\ last[1].status = "NoError"
    /\ last[1].score.window = sent[1]

\* C6 (idempotence): when ComputeSSIMU2_flat or ComputeButteraugli_flat is
\* called again by the same caller with the inputs of its previous call
\* (handler pointer not null), the library receives the same call and the
\* status, the score slot and the destination map are what they were after
\* the first call.
C6_Idempotence ==
    [][\A t \in Threads :
         (/\ Invoking(t)
          /\ call[t].op \in {"SSIMU2", "Butteraugli"}
          /\ last[t].op = call[t].op
          /\ last[t].in = call[t].in
          /\ ReadableHandler(t)) =>
            /\ seen'[t] = last[t].seen
            /\ ret'[t] = last[t].status
            /\ mem'.score[ScoreSlot(t)] = last[t].score
            /\ mem'.map[MapBuf(t)] = last[t].map]_vars

\* A single-pass score has been computed twice from the same inputs.
C6_Witness ==
    \E t \in Threads :
        /\ pc[t] = "invoked"
        /\ call[t].op = "SSIMU2"
        /\ last[t].op = "SSIMU2"
        /\ last[t].in = call[t].in
        /\ call[t].in.handler = LiveHandler(t)
        /\ ret[t] = "NoError"

\* C7 (null-plane boundary): in every call, whatever its strides, a null
\* plane 1 or 2 of either image is null at the same index of the pointer
\* array the function builds and of the array the library receives, plane 0
\* stays at index 0, and the plane buffers are as they were.
C7_NullPlanes ==
    \A t \in Threads :
        InCall(t) =>
            LET l == IF pc[t] = "invoked" THEN Frame(seen[t])
                     ELSE locals[LocalsSlot(t)]
            IN /\ \A i \in {2, 3} :
                    /\ call[t].in.sp[i] = 0 => l.src[i] = 0
                    /\ call[t].in.dp[i] = 0 => l.dst[i] = 0
               /\ l.src[1] = call[t].in.sp[1]
               /\ l.dst[1] = call[t].in.dp[1]
               /\ mem.plane = MemInit.plane

\* A monochrome frame pair has reached the library in a temporal score call.
C7_Witness ==
    \E t \in Threads :
        /\ pc[t] = "invoked"
        /\ call[t].op = "ComputeCVVDP"
        /\ call[t].in.sp = <<14, 0, 0>>
        /\ seen[t].src = <<14, 0, 0>>
        /\ seen[t].dst = <<34, 0, 0>>
        /\ ret[t] = "NoError"

\* C8 (no side effects of the adapter): entering and leaving a flattened
\* function change neither the caller-visible memory nor the library state;
\* the library call is passed the caller's score pointer, destination-map
\* pointer and destination stride; and the memory after that call is the
\* memory the library call itself produced, with handler objects and plane
\* buffers as before.
C8_NoOwnEffects ==
    [][\A t \in Threads :
         /\ (Entering(t) \/ Returning(t)) => (mem' = mem /\ lib' = lib)
         /\ Invoking(t) =>
              /\ call[t].op # "LoadCVVDP" => seen'[t].score = call[t].in.score
              /\ call[t].op \in {"Butteraugli", "ComputeCVVDP"} =>
                   /\ seen'[t].dstp = call[t].in.dstp
                   /\ seen'[t].dststride = call[t].in.dststride
              /\ mem' = Vship(seen'[t], mem, lib).mem
              /\ mem'.handler = mem.handler
              /\ mem'.plane = mem.plane]_vars

\* A destination map has been forwarded to the library by a call made
\* while the caller's score slot held the score of an earlier call.
C8_Witness ==
    \E t \in Threads :
        /\ pc[t] = "invoked"
        /\ call[t].op = "ComputeCVVDP"
        /\ seen[t].dstp = MapBuf(t)
        /\ seen[t].dststride = 8
        /\ last[t].status = "NoError"
        /\ last[t].score # Unset

\* C9 (plane and stride pairing): in every call of any of the four
\* functions, the source pointer array, the source stride array, the
\* distorted pointer array and the distorted stride array the function
\* builds, and those the library receives, hold at index i the caller's i-th
\* source plane, its stride, the i-th distorted plane and its stride.
C9_Pairing ==
    \A t \in Threads :
        /\ InCall(t) => locals[LocalsSlot(t)] = Submitted(t)
        /\ pc[t] = "invoked" => Frame(seen[t]) = Submitted(t)

\* Both parameter layouts are in use at once: ComputeSSIMU2_flat and
\* ComputeCVVDP_flat have each built their arrays from a colour pair.
C9_Witness ==
    /\ pc[1] = "entered" /\ call[1].op = "SSIMU2"
    /\ locals[LocalsSlot(1)].srcLine = <<21, 22, 23>>
    /\ locals[LocalsSlot(1)].dst = <<31, 32, 33>>
    /\ pc[2] = "invoked" /\ call[2].op = "ComputeCVVDP"
    /\ seen[2].srcLine = <<21, 22, 23>>
    /\ seen[2].dstLine = <<41, 42, 43>>

\* C10 (call isolation): while two calls are in progress at once, each holds
\* the arrays built from its own caller's planes and strides in a stack slot
\* of its own, and the library call of each receives its own caller's
\* arrays, score pointer and destination arguments.
C10_Isolation ==
    \A t, u \in Threads :
        (t # u /\ InCall(t) /\ InCall(u)) =>
            /\ LocalsSlot(t) # LocalsSlot(u)
            /\ locals[LocalsSlot(t)] = Submitted(t)
            /\ pc[t] = "invoked" =>
                 /\ Frame(seen[t]) = Submitted(t)
                 /\ seen[t].score \in {0, ScoreSlot(t)}
                 /\ seen[t].dstp \in {0, MapBuf(t)}
                 /\ seen[t].dstp = IF call[t].op \in {"Butteraugli", "ComputeCVVDP"}
                                   THEN call[t].in.dstp ELSE 0

\* Two calls with different frame pairs are both past their library call.
C10_Witness ==
    /\ pc[1] = "invoked" /\ pc[2] = "invoked"
    /\ call[1].op = "LoadCVVDP" /\ call[2].op = "ComputeCVVDP"
    /\ call[1].in.sp # call[2].in.sp
    /\ seen[1].src = call[1].in.sp
    /\ seen[2].src = call[2].in.sp

====
